---- MODULE Spec2Model ----
(***************************************************************************)
(* GitHubAnalysisClient (src/github_analysis/client/client.py): the MCP    *)
(* session lifecycle, the two tool getters, the keyword classifier, the    *)
(* chat call and the three workflows, driven either by main() or by an     *)
(* arbitrary caller of the client's methods (as tests/test_mcp.py does).   *)
(***************************************************************************)
EXTENDS Integers, Sequences, FiniteSets, TLC

VARIABLES
    disable_tools,  \* self.disable_tools
    session,        \* self.session: None or the ClientSession of the n-th connect
    exit_stack,     \* self.exit_stack: the contexts entered and not yet exited
    live,           \* transports / sessions currently open
    released,       \* every __aexit__ performed so far, in order
    conns,          \* number of connection attempts that reached the try block
    pc,             \* position of main(), or "client" for a caller of the methods
    last,           \* the last method call: its name, what it raised, its input
    wf,             \* what the last workflow / getter call did
    n_workflows,    \* workflow invocations so far
    n_ops,          \* method calls made by the caller (client specification)
    n_call_tool,    \* session.call_tool invocations so far
    n_chat,         \* ollama.chat invocations so far
    query,          \* classifier specification: the query string
    needs           \* classifier specification: the two predicates' answers

vars == <<disable_tools, session, exit_stack, live, released, conns, pc, last,
          wf, n_workflows, n_ops, n_call_tool, n_chat, query, needs>>

-----------------------------------------------------------------------------
(* Bounds of the model *)

\* workflow invocations in one run
MaxWorkflows == 2
\* method calls an arbitrary caller makes on one client
MaxOps == 3
\* fragments concatenated into one classifier query
MaxWords == 2

-----------------------------------------------------------------------------
(* Python values *)

\* self.session = None: no ClientSession object
NoSession == 0

Range(s) == {s[i] : i \in 1..Len(s)}

Reverse(s) == [i \in 1..Len(s) |-> s[Len(s) + 1 - i]]

-----------------------------------------------------------------------------
(* str.lower and the substring test `keyword in prompt`.  A str is matched  *)
(* as the sequence of its characters.                                        *)

\* the characters of a str, in order
Chars(s) == [i \in 1..Len(s) |-> SubSeq(s, i, i)]

UpperLetters == "ABCDEFGHIJKLMNOPQRSTUVWXYZ"

LowerLetters == "abcdefghijklmnopqrstuvwxyz"

\* the lower-case form of each upper-case letter
LowerOf ==
    [u \in Range(Chars(UpperLetters)) |->
        LET i == CHOOSE k \in 1..Len(UpperLetters) : SubSeq(UpperLetters, k, k) = u
        IN  SubSeq(LowerLetters, i, i)]

LowerChar(c) == IF c \in DOMAIN LowerOf THEN LowerOf[c] ELSE c

\* prompt.lower(), as its characters
lower(s) == [i \in 1..Len(s) |-> LowerChar(SubSeq(s, i, i))]

\* Python's `needle in hay` for two strings given as their characters
StrIn(needle, hay) ==
    \E i \in 0..(Len(hay) - Len(needle)) :
        \A j \in 1..Len(needle) : hay[i + j] = needle[j]

\* Python's any(...) over a list of booleans
any(bs) == \E i \in 1..Len(bs) : bs[i]

commit_keywords ==
    <<"commit", "change", "diff", "modified", "added", "deleted", "history",
      "previous", "version", "update">>

repo_keywords ==
    <<"repo", "repository", "project", "codebase", "structure", "directory",
      "files", "organization">>

\* the characters of each keyword
KeywordChars ==
    [k \in Range(commit_keywords) \cup Range(repo_keywords) |-> Chars(k)]

\* mutant: the prompt is matched as typed, without lower()
_needs_commit_info_case_sensitive(prompt) ==
    LET typed == Chars(prompt)
    IN  any([k \in 1..Len(commit_keywords) |->
                StrIn(KeywordChars[commit_keywords[k]], typed)])

_needs_commit_info(prompt) ==
    LET lowered == lower(prompt)
    IN  any([k \in 1..Len(commit_keywords) |->
                StrIn(KeywordChars[commit_keywords[k]], lowered)])

\* mutant: the repository predicate also answers to the commit keywords
_needs_repo_info_any_keyword(prompt) ==
    LET lowered == lower(prompt)
    IN  any([k \in 1..Len(commit_keywords \o repo_keywords) |->
                StrIn(KeywordChars[(commit_keywords \o repo_keywords)[k]], lowered)])

_needs_repo_info(prompt) ==
    LET lowered == lower(prompt)
    IN  any([k \in 1..Len(repo_keywords) |->
                StrIn(KeywordChars[repo_keywords[k]], lowered)])

-----------------------------------------------------------------------------
(* JSON: json.loads of a tool's text block, json.dumps(..., indent=2) of the  *)
(* context.  A Python value is [type, lit, items]: lit is the literal of a    *)
(* scalar, items the <<key, value>> pairs of a dict (in insertion order) or   *)
(* the <<"", value>> elements of a list.                                      *)

PyNone == [type |-> "NoneType", lit |-> "null", items |-> <<>>]

PyInt(l) == [type |-> "int", lit |-> l, items |-> <<>>]

PyStr(l) == [type |-> "str", lit |-> l, items |-> <<>>]

PyDict(kvs) == [type |-> "dict", lit |-> "", items |-> kvs]

PyList(vs) == [type |-> "list", lit |-> "", items |-> [i \in 1..Len(vs) |-> <<"", vs[i]>>]]

\* Python truthiness, as `if commits:` / `if not repo_info:` / `if context:` use it
Truthy(v) ==
    CASE v.type = "NoneType" -> FALSE
      [] v.type \in {"dict", "list"} -> Len(v.items) > 0
      [] v.type = "str" -> Len(v.lit) > 0
      [] OTHER -> v.lit # "0"

\* the texts a tool's first text block carries in this model
RepoText == "{\"stargazers_count\": 3}"

CommitsText == "[{\"sha\": \"a1\"}]"

EmptyObjectText == "{}"

EmptyListText == "[]"

MalformedText == "<html>rate limited"

\* whether json.loads(text) returns rather than raising json.JSONDecodeError
JsonValid(text) == text \in {RepoText, CommitsText, EmptyObjectText, EmptyListText}

json_loads(text) ==
    CASE text = RepoText -> PyDict(<< <<"stargazers_count", PyInt("3")>> >>)
      [] text = CommitsText -> PyList(<< PyDict(<< <<"sha", PyStr("a1")>> >>) >>)
      [] text = EmptyObjectText -> PyDict(<<>>)
      [] text = EmptyListText -> PyList(<<>>)

Pad(level) == SubSeq("                ", 1, 2 * level)

RECURSIVE json_dumps_at(_, _)
RECURSIVE json_dumps_items(_, _, _)
\* the members of a non-empty dict or list, one per line, indented to `level`
json_dumps_items(items, level, keyed) ==
    IF items = <<>> THEN ""
    ELSE LET head == items[1]
             text == Pad(level)
                     \o (IF keyed THEN "\"" \o head[1] \o "\": " ELSE "")
                     \o json_dumps_at(head[2], level)
         IN  IF Len(items) = 1 THEN text
             ELSE text \o ",\n" \o json_dumps_items(Tail(items), level, keyed)

json_dumps_at(v, level) ==
    CASE v.type = "dict" ->
            IF v.items = <<>> THEN "{}"
            ELSE "{\n" \o json_dumps_items(v.items, level + 1, TRUE) \o "\n" \o Pad(level) \o "}"
      [] v.type = "list" ->
            IF v.items = <<>> THEN "[]"
            ELSE "[\n" \o json_dumps_items(v.items, level + 1, FALSE) \o "\n" \o Pad(level) \o "]"
      [] v.type = "str" -> "\"" \o v.lit \o "\""
      [] OTHER -> v.lit

\* json.dumps(value, indent=2)
json_dumps(v) == json_dumps_at(v, 0)

-----------------------------------------------------------------------------
(* The tool provider as the client sees it: session.call_tool either raises  *)
(* or returns a result whose content is a list of typed blocks.              *)

TextContent(t) == [type |-> "text", text |-> t]

ImageContent == [type |-> "image", text |-> ""]

TransportError == [raises |-> TRUE, content |-> <<>>]

CallToolResult(blocks) == [raises |-> FALSE, content |-> blocks]

\* what call_tool("get_repo_info", ...) on an open session can produce
RepoResponses ==
    { TransportError,
      CallToolResult(<<>>),
      CallToolResult(<<ImageContent, TextContent(RepoText)>>),
      CallToolResult(<<TextContent(MalformedText)>>),
      CallToolResult(<<TextContent(RepoText)>>),
      CallToolResult(<<TextContent(EmptyObjectText)>>) }

\* what call_tool("get_commit_history", ...) on an open session can produce
CommitResponses ==
    { TransportError,
      CallToolResult(<<>>),
      CallToolResult(<<TextContent(MalformedText)>>),
      CallToolResult(<<TextContent(CommitsText), TextContent(CommitsText)>>),
      CallToolResult(<<TextContent(EmptyListText)>>) }

\* what ollama.chat can do
ChatOutcomes == {"ok", "raises"}

\* the text ollama.chat returns in response["message"]["content"]
ChatText == "generated analysis"

-----------------------------------------------------------------------------
(* The client object and its exit stack *)

\* the contexts connect_to_server enters on its n-th attempt
Transport(n) == [kind |-> "transport", conn |-> n]

ClientSession(n) == [kind |-> "session", conn |-> n]

\* the client and the resources it holds, as one value
Client ==
    [disable_tools |-> disable_tools, session |-> session, exit_stack |-> exit_stack,
     live |-> live, released |-> released, conns |-> conns]

\* await self.exit_stack.enter_async_context(r): r is opened and pushed
enter_async_context(c, r) ==
    [c EXCEPT !.exit_stack = Append(@, r), !.live = @ \cup {r}]

\* await self.exit_stack.aclose(): every pushed context is exited, last first,
\* and the stack is left empty
aclose(c) ==
    [c EXCEPT !.exit_stack = <<>>,
              !.live = @ \ Range(c.exit_stack),
              !.released = @ \o Reverse(c.exit_stack)]

\* where connect_to_server can fail
ConnectOutcomes ==
    {"ok", "no_script", "transport_fails", "session_fails", "initialize_fails",
     "list_tools_fails"}

\* mutant: the except branch re-raises without closing the stack
connect_except_keeps_open(c) == [client |-> c, exc |-> "ConnectError"]

\* mutant: the except branch exits the entered contexts itself and leaves them
\* on the stack
connect_except_exits_by_hand(c) ==
    [client |-> [c EXCEPT !.live = @ \ Range(c.exit_stack),
                          !.released = @ \o Reverse(c.exit_stack)],
     exc |-> "ConnectError"]

\* the except branch of connect_to_server: close the stack, re-raise
connect_except(c) == [client |-> aclose(c), exc |-> "ConnectError"]

\* mutant: the disable_tools check of connect_to_server is missing
connect_to_server_ignores_disable(c, outcome) ==
    LET n  == c.conns + 1
        c0 == [c EXCEPT !.conns = n]
        c1 == enter_async_context(c0, Transport(n))
        c2 == [enter_async_context(c1, ClientSession(n)) EXCEPT !.session = n]
    IN  CASE outcome \in {"no_script", "transport_fails"} -> connect_except(c0)
          [] outcome = "session_fails" -> connect_except(c1)
          [] outcome \in {"initialize_fails", "list_tools_fails"} -> connect_except(c2)
          [] OTHER -> [client |-> c2, exc |-> ""]

connect_to_server(c, outcome) ==
    IF c.disable_tools THEN [client |-> c, exc |-> ""]
    ELSE LET n  == c.conns + 1
             c0 == [c EXCEPT !.conns = n]
             c1 == enter_async_context(c0, Transport(n))
             c2 == [enter_async_context(c1, ClientSession(n)) EXCEPT !.session = n]
         IN  CASE outcome \in {"no_script", "transport_fails"} -> connect_except(c0)
               [] outcome = "session_fails" -> connect_except(c1)
               [] outcome \in {"initialize_fails", "list_tools_fails"} -> connect_except(c2)
               [] OTHER -> [client |-> c2, exc |-> ""]

-----------------------------------------------------------------------------
(* The two getters *)

Owner == "frangkli"

Repo == "github-analysis"

\* get_commits' default limit
DefaultLimit == 5

\* one entry of a call's trace: a call_tool on the session or an ollama.chat
ToolCall(name, arguments, sess, result) ==
    [ev |-> "call_tool", name |-> name, arguments |-> arguments, session |-> sess,
     messages |-> <<>>, result |-> result]

ChatCall(messages) ==
    [ev |-> "chat", name |-> "qwen2.5:7b", arguments |-> [num_ctx |-> 4000],
     session |-> NoSession, messages |-> messages, result |-> CallToolResult(<<>>)]

\* what questionary.text(...).ask_async() returns: the text, or None when cancelled
Cancelled == [cancelled |-> TRUE, text |-> ""]

Typed(text) == [cancelled |-> FALSE, text |-> text]

\* the prompt question of the custom workflow and what it returned
AskCall(answer) ==
    [ev |-> "ask", name |-> "Enter your analysis prompt:", arguments |-> <<>>,
     session |-> NoSession, messages |-> <<>>, result |-> answer]

\* self.session.call_tool: a session that has been exited has closed streams
call_tool(c, resp) ==
    IF ClientSession(c.session) \in c.live THEN resp ELSE TransportError

\* the value the try body returns for a call_tool result that did not raise
first_text_payload(result) ==
    IF Len(result.content) > 0
    THEN LET first_content == result.content[1]
         IN  IF first_content.type = "text"
             THEN IF JsonValid(first_content.text)
                  THEN [exc |-> "", ret |-> json_loads(first_content.text)]
                  ELSE [exc |-> "JSONDecodeError", ret |-> PyNone]
             ELSE [exc |-> "", ret |-> PyNone]
    ELSE [exc |-> "", ret |-> PyNone]

\* the try body of a getter: [exc, ret, trace]
getter_try(c, name, arguments, resp) ==
    IF c.session = NoSession
    THEN [exc |-> "RuntimeError", ret |-> PyNone, trace |-> <<>>]
    ELSE LET result == call_tool(c, resp)
             got    == IF result.raises THEN [exc |-> "TransportError", ret |-> PyNone]
                       ELSE first_text_payload(result)
         IN  [exc |-> got.exc, ret |-> got.ret,
              trace |-> <<ToolCall(name, arguments, c.session, result)>>]

\* mutant: the getter has no except clause, the exception leaves it
getter_except_missing(t) == t

\* `except Exception`: print the error, return None
getter_except(t) ==
    IF t.exc # "" THEN [exc |-> "", ret |-> PyNone, trace |-> t.trace] ELSE t

get_repo_info(c, owner, repo, resp) ==
    IF c.disable_tools THEN [exc |-> "", ret |-> PyNone, trace |-> <<>>]
    ELSE getter_except(getter_try(c, "get_repo_info", [owner |-> owner, repo |-> repo], resp))

\* mutant: a get_commit_history call that failed is made a second time
get_commits_retries(c, owner, repo, limit, resp) ==
    IF c.disable_tools THEN [exc |-> "", ret |-> PyNone, trace |-> <<>>]
    ELSE LET t == getter_try(c, "get_commit_history",
                             [owner |-> owner, repo |-> repo, limit |-> limit], resp)
         IN  IF t.exc # "" THEN [exc |-> "", ret |-> PyNone, trace |-> t.trace \o t.trace]
             ELSE t

get_commits(c, owner, repo, limit, resp) ==
    IF c.disable_tools THEN [exc |-> "", ret |-> PyNone, trace |-> <<>>]
    ELSE getter_except(getter_try(c, "get_commit_history",
                                  [owner |-> owner, repo |-> repo, limit |-> limit], resp))

-----------------------------------------------------------------------------
(* The chat call *)

\* mutant: the user message is appended before the context message
analyze_with_ollama_user_first(system_prompt, context, user_prompt, chat) ==
    LET messages ==
            <<[role |-> "system", content |-> system_prompt]>>
            \o (IF user_prompt # "" THEN <<[role |-> "user", content |-> user_prompt]>> ELSE <<>>)
            \o (IF context # "" THEN <<[role |-> "system", content |-> context]>> ELSE <<>>)
    IN  [exc |-> IF chat = "raises" THEN "ResponseError" ELSE "",
         ret |-> IF chat = "raises" THEN "" ELSE ChatText,
         trace |-> <<ChatCall(messages)>>]

\* mutant: a context that serializes an empty mapping is left out of the request
analyze_with_ollama_drops_empty_mapping(system_prompt, context, user_prompt, chat) ==
    LET messages ==
            <<[role |-> "system", content |-> system_prompt]>>
            \o (IF context \notin {"", "{}"}
                THEN <<[role |-> "system", content |-> context]>> ELSE <<>>)
            \o (IF user_prompt # "" THEN <<[role |-> "user", content |-> user_prompt]>> ELSE <<>>)
    IN  [exc |-> IF chat = "raises" THEN "ResponseError" ELSE "",
         ret |-> IF chat = "raises" THEN "" ELSE ChatText,
         trace |-> <<ChatCall(messages)>>]

analyze_with_ollama(system_prompt, context, user_prompt, chat) ==
    LET messages ==
            <<[role |-> "system", content |-> system_prompt]>>
            \o (IF context # "" THEN <<[role |-> "system", content |-> context]>> ELSE <<>>)
            \o (IF user_prompt # "" THEN <<[role |-> "user", content |-> user_prompt]>> ELSE <<>>)
    IN  [exc |-> IF chat = "raises" THEN "ResponseError" ELSE "",
         ret |-> IF chat = "raises" THEN "" ELSE ChatText,
         trace |-> <<ChatCall(messages)>>]

-----------------------------------------------------------------------------
(* The three workflows.  A call is recorded as                               *)
(* [name, exc, trace, printed, user_prompt, need_commits, need_repo_info,    *)
(*  commits, repo_info, context_dict, context, ret]: exc is the exception    *)
(* that leaves the call ("" when it returns), trace the call_tool / chat     *)
(* calls it made in order, printed the analysis texts it printed, ret what a *)
(* getter called on its own returned; the rest are the handler's locals.     *)

NoCall ==
    [name |-> "none", exc |-> "", trace |-> <<>>, printed |-> <<>>, user_prompt |-> "",
     need_commits |-> FALSE, need_repo_info |-> FALSE, commits |-> PyNone,
     repo_info |-> PyNone, context_dict |-> PyNone, context |-> "", ret |-> PyNone]

CommitSystemPrompt(owner, repo) ==
    "Analyze the commit history of the GitHub repository " \o owner \o "/" \o repo

RepoSystemPrompt(owner, repo) ==
    "Analyze this GitHub repository " \o owner \o "/" \o repo \o "'s information"

RepoSystemPromptMetadata == " Here are some metadata returned by the Github API"

CustomSystemPrompt(owner, repo) ==
    "You are a GitHub repository analyzer. " \o owner \o "/" \o repo

\* analysis = self.analyze_with_ollama(...); console.print(analysis)
print_analysis(w, a) ==
    [w EXCEPT !.trace = @ \o a.trace,
              !.exc = a.exc,
              !.printed = IF a.exc = "" THEN <<a.ret>> ELSE <<>>]

\* commits = await self.get_commits(...)
with_commits(w, g) == [w EXCEPT !.trace = @ \o g.trace, !.exc = g.exc, !.commits = g.ret]

\* repo_info = await self.get_repo_info(...)
with_repo_info(w, g) == [w EXCEPT !.trace = @ \o g.trace, !.exc = g.exc, !.repo_info = g.ret]

handle_commit_analysis(c, owner, repo, resp, chat) ==
    LET system_prompt == CommitSystemPrompt(owner, repo)
        w0 == [NoCall EXCEPT !.name = "commits"]
    IN  IF c.disable_tools
        THEN print_analysis(w0, analyze_with_ollama(system_prompt, "", "", chat))
        ELSE LET commits == get_commits(c, owner, repo, DefaultLimit, resp)
                 w1 == with_commits(w0, commits)
             IN  IF commits.exc # "" \/ ~Truthy(commits.ret) THEN w1
                 ELSE LET context == json_dumps(commits.ret)
                      IN  print_analysis([w1 EXCEPT !.context = context],
                                         analyze_with_ollama(system_prompt, context, "", chat))

handle_repo_analysis(c, owner, repo, resp, chat) ==
    LET system_prompt == RepoSystemPrompt(owner, repo)
        w0 == [NoCall EXCEPT !.name = "repo"]
    IN  IF c.disable_tools
        THEN print_analysis(w0, analyze_with_ollama(system_prompt, "", "", chat))
        ELSE LET repo_info == get_repo_info(c, owner, repo, resp)
                 w1 == with_repo_info(w0, repo_info)
             IN  IF repo_info.exc # "" \/ ~Truthy(repo_info.ret) THEN w1
                 ELSE LET context == json_dumps(repo_info.ret)
                      IN  print_analysis([w1 EXCEPT !.context = context],
                                         analyze_with_ollama(system_prompt \o RepoSystemPromptMetadata,
                                                             context, "", chat))

\* a getter that was not called
NotFetched == [exc |-> "", ret |-> PyNone, trace |-> <<>>]

\* need_commits and need_repo_info of handle_custom_analysis for a prompt.  The
\* two predicates are pure: an action computes them once for the prompt it
\* draws and hands the handler their answers.
needs_of(user_prompt) ==
    [need_commits   |-> _needs_commit_info(user_prompt),
     need_repo_info |-> _needs_repo_info(user_prompt)]

\* mutant: the repository data is fetched before the commit data
custom_with_tools_repo_first(c, owner, repo, user_prompt, need, resp1, resp2, chat) ==
    LET system_prompt  == CustomSystemPrompt(owner, repo)
        need_commits   == need.need_commits
        need_repo_info == need.need_repo_info
        w0 == [NoCall EXCEPT !.name = "custom", !.user_prompt = user_prompt,
                             !.trace = <<AskCall(Typed(user_prompt))>>,
                             !.need_commits = need_commits,
                             !.need_repo_info = need_repo_info,
                             !.context_dict = PyDict(<<>>)]
        repo_info == IF need_repo_info THEN get_repo_info(c, owner, repo, resp2)
                     ELSE NotFetched
        w1 == [with_repo_info(w0, repo_info) EXCEPT
                  !.context_dict = IF Truthy(repo_info.ret)
                                   THEN PyDict(Append(@.items, <<"repo", repo_info.ret>>))
                                   ELSE @]
        commits == IF need_commits THEN get_commits(c, owner, repo, DefaultLimit, resp1)
                   ELSE NotFetched
        w2 == [with_commits(w1, commits) EXCEPT
                  !.context_dict = IF Truthy(commits.ret)
                                   THEN PyDict(Append(@.items, <<"commits", commits.ret>>))
                                   ELSE @]
        context == json_dumps(w2.context_dict)
    IN  IF repo_info.exc # "" THEN w1
        ELSE IF commits.exc # "" THEN w2
        ELSE print_analysis([w2 EXCEPT !.context = context],
                            analyze_with_ollama(system_prompt, context, user_prompt, chat))

\* mutant: context_dict is kept from one request to the next
custom_with_tools_keeps_context(c, owner, repo, user_prompt, need, resp1, resp2, chat) ==
    LET system_prompt  == CustomSystemPrompt(owner, repo)
        need_commits   == need.need_commits
        need_repo_info == need.need_repo_info
        w0 == [NoCall EXCEPT !.name = "custom", !.user_prompt = user_prompt,
                             !.trace = <<AskCall(Typed(user_prompt))>>,
                             !.need_commits = need_commits,
                             !.need_repo_info = need_repo_info,
                             !.context_dict = IF wf.context_dict.type = "dict"
                                              THEN wf.context_dict ELSE PyDict(<<>>)]
        commits == IF need_commits THEN get_commits(c, owner, repo, DefaultLimit, resp1)
                   ELSE NotFetched
        w1 == [with_commits(w0, commits) EXCEPT
                  !.context_dict = IF Truthy(commits.ret)
                                   THEN PyDict(Append(@.items, <<"commits", commits.ret>>))
                                   ELSE @]
        repo_info == IF need_repo_info THEN get_repo_info(c, owner, repo, resp2)
                     ELSE NotFetched
        w2 == [with_repo_info(w1, repo_info) EXCEPT
                  !.context_dict = IF Truthy(repo_info.ret)
                                   THEN PyDict(Append(@.items, <<"repo", repo_info.ret>>))
                                   ELSE @]
        context == json_dumps(w2.context_dict)
    IN  IF commits.exc # "" THEN w1
        ELSE IF repo_info.exc # "" THEN w2
        ELSE print_analysis([w2 EXCEPT !.context = context],
                            analyze_with_ollama(system_prompt, context, user_prompt, chat))

\* handle_custom_analysis from the classification on (tools enabled, prompt given)
custom_with_tools(c, owner, repo, user_prompt, need, resp1, resp2, chat) ==
    LET system_prompt  == CustomSystemPrompt(owner, repo)
        need_commits   == need.need_commits
        need_repo_info == need.need_repo_info
        w0 == [NoCall EXCEPT !.name = "custom", !.user_prompt = user_prompt,
                             !.trace = <<AskCall(Typed(user_prompt))>>,
                             !.need_commits = need_commits,
                             !.need_repo_info = need_repo_info,
                             !.context_dict = PyDict(<<>>)]
        commits == IF need_commits THEN get_commits(c, owner, repo, DefaultLimit, resp1)
                   ELSE NotFetched
        w1 == [with_commits(w0, commits) EXCEPT
                  !.context_dict = IF Truthy(commits.ret)
                                   THEN PyDict(Append(@.items, <<"commits", commits.ret>>))
                                   ELSE @]
        repo_info == IF need_repo_info THEN get_repo_info(c, owner, repo, resp2)
                     ELSE NotFetched
        w2 == [with_repo_info(w1, repo_info) EXCEPT
                  !.context_dict = IF Truthy(repo_info.ret)
                                   THEN PyDict(Append(@.items, <<"repo", repo_info.ret>>))
                                   ELSE @]
        context == json_dumps(w2.context_dict)
    IN  IF commits.exc # "" THEN w1
        ELSE IF repo_info.exc # "" THEN w2
        ELSE print_analysis([w2 EXCEPT !.context = context],
                            analyze_with_ollama(system_prompt, context, user_prompt, chat))

\* mutant: the disabled branch of handle_custom_analysis is missing
handle_custom_analysis_always_assembles(c, owner, repo, answer, need, resp1, resp2, chat) ==
    LET user_prompt == answer.text
        w0 == [NoCall EXCEPT !.name = "custom", !.user_prompt = user_prompt,
                             !.trace = <<AskCall(answer)>>]
    IN  IF answer.cancelled \/ user_prompt = "" THEN w0
        ELSE custom_with_tools(c, owner, repo, user_prompt, need, resp1, resp2, chat)

\* mutant: the return on an empty prompt is missing
handle_custom_analysis_without_empty_return(c, owner, repo, answer, need, resp1, resp2, chat) ==
    LET system_prompt == CustomSystemPrompt(owner, repo)
        user_prompt   == answer.text
        w0 == [NoCall EXCEPT !.name = "custom", !.user_prompt = user_prompt,
                             !.trace = <<AskCall(answer)>>]
    IN  IF c.disable_tools
        THEN print_analysis(w0, analyze_with_ollama(system_prompt, "", user_prompt, chat))
        ELSE custom_with_tools(c, owner, repo, user_prompt, need, resp1, resp2, chat)

handle_custom_analysis(c, owner, repo, answer, need, resp1, resp2, chat) ==
    LET system_prompt == CustomSystemPrompt(owner, repo)
        user_prompt   == answer.text
        w0 == [NoCall EXCEPT !.name = "custom", !.user_prompt = user_prompt,
                             !.trace = <<AskCall(answer)>>]
    IN  IF answer.cancelled \/ user_prompt = "" THEN w0
        ELSE IF c.disable_tools
        THEN print_analysis(w0, analyze_with_ollama(system_prompt, "", user_prompt, chat))
        ELSE custom_with_tools(c, owner, repo, user_prompt, need, resp1, resp2, chat)

\* the menu: key and label of each entry, in order
MenuChoices ==
    << <<"commits", "Analyze recent commits">>,
       <<"repo", "Analyze repository information">>,
       <<"custom", "Custom analysis prompt">>,
       <<"exit", "Exit">> >>

\* what questionary.select(...).ask_async() returns: a label, or "" for None
MenuAnswers == {MenuChoices[i][2] : i \in 1..Len(MenuChoices)} \cup {""}

get_menu_choice(choice) ==
    IF choice # ""
    THEN MenuChoices[CHOOSE i \in 1..Len(MenuChoices) : MenuChoices[i][2] = choice][1]
    ELSE "exit"

-----------------------------------------------------------------------------
(* Inputs *)

\* the prompts a user types into the custom workflow
Prompts ==
    { "last commit?",
      "the files",
      "Repo changes",
      "What does this function do?" }

\* what the prompt question can return
PromptAnswers == {Cancelled, Typed("")} \cup {Typed(p) : p \in Prompts}

\* the prompts of tests/test_mcp.py
TestPrompts ==
    { "Show me recent commits", "What changed in the last update?",
      "How is the code structured?", "What does this function do?",
      "Show me the repo structure", "How are the files organized?",
      "What was the last commit?", "Explain this function",
      "Who is the author of this repo?", "Tell me about this repo concisely.",
      "How does this repo use the MCP protocol?", "How is this repository structured?",
      "What programming language does this codebase use?",
      "What is the most recent commit about?",
      "Who authored the latest commit and when?", "How is the weather today?",
      "What license is this repository using?",
      "Give me the exact description of this repository." }

\* pieces of classifier queries: every keyword, two in other cases, a negation,
\* and the two halves of a keyword
Fragments ==
    Range(commit_keywords) \cup Range(repo_keywords)
    \cup { "COMMIT", "Repo", "no ", " ", "comm", "it" }

RECURSIVE Phrases(_)
\* the concatenations of at most n fragments
Phrases(n) ==
    IF n = 0 THEN {""}
    ELSE LET shorter == Phrases(n - 1)
         IN  shorter \cup {p \o f : p \in shorter, f \in Fragments}

Queries == TestPrompts \cup Phrases(MaxWords) \cup {"no commits", "No Commits in REPO"}

-----------------------------------------------------------------------------
(* State changes shared by the actions *)

SetClient(c) ==
    /\ disable_tools' = c.disable_tools
    /\ session' = c.session
    /\ exit_stack' = c.exit_stack
    /\ live' = c.live
    /\ released' = c.released
    /\ conns' = c.conns

ClientUnchanged == UNCHANGED <<disable_tools, session, exit_stack, live, released, conns>>

Count(trace, ev) == Cardinality({i \in 1..Len(trace) : trace[i].ev = ev})

\* what a call was given from outside: the prompt typed and what each
\* call_tool answered, in order
Given(trace) == SelectSeq(trace, LAMBDA e : e.ev # "chat")

\* a workflow or getter call w has been made; arg notes a call that was given
\* what the call before it was given
Called(w) ==
    /\ wf' = w
    /\ last' = [op |-> w.name, exc |-> w.exc,
                 arg |-> IF w.name = wf.name /\ Given(w.trace) = Given(wf.trace)
                         THEN "repeat" ELSE ""]
    /\ n_call_tool' = n_call_tool + Count(w.trace, "call_tool")
    /\ n_chat' = n_chat + Count(w.trace, "chat")

NoNeeds == [set |-> FALSE, commit |-> FALSE, repo |-> FALSE]

\* GitHubAnalysisClient(disable_tools), before any call
InitWith(disabled, at, q) ==
    /\ disable_tools = disabled
    /\ session = NoSession
    /\ exit_stack = <<>>
    /\ live = {}
    /\ released = <<>>
    /\ conns = 0
    /\ pc = at
    /\ last = [op |-> "__init__", exc |-> "", arg |-> ""]
    /\ wf = NoCall
    /\ n_workflows = 0
    /\ n_ops = 0
    /\ n_call_tool = 0
    /\ n_chat = 0
    /\ query = q
    /\ needs = NoNeeds

-----------------------------------------------------------------------------
(* main(): connect, the menu loop of start(), and the finally block *)

Init == \E disabled \in BOOLEAN : InitWith(disabled, "connect", "")

\* await client.connect_to_server()
MainConnect ==
    /\ pc = "connect"
    /\ \E outcome \in ConnectOutcomes :
          LET r == connect_to_server(Client, outcome)
          IN  /\ SetClient(r.client)
              /\ last' = [op |-> "connect_to_server", exc |-> r.exc, arg |-> outcome]
              /\ pc' = IF r.exc = "" THEN "start" ELSE "finally"
    /\ UNCHANGED <<wf, n_workflows, n_ops, n_call_tool, n_chat, query, needs>>

\* one workflow of the menu loop has run: back to the menu, or out on an exception
Looped(w) ==
    /\ Called(w)
    /\ n_workflows' = n_workflows + 1
    /\ pc' = IF w.exc = "" THEN "start" ELSE "finally"
    /\ ClientUnchanged
    /\ UNCHANGED <<n_ops, query, needs>>

StartCommits ==
    /\ pc = "start"
    /\ n_workflows < MaxWorkflows
    /\ \E choice \in MenuAnswers, resp \in CommitResponses, chat \in ChatOutcomes :
          /\ get_menu_choice(choice) = "commits"
          /\ Looped(handle_commit_analysis(Client, Owner, Repo, resp, chat))

StartRepo ==
    /\ pc = "start"
    /\ n_workflows < MaxWorkflows
    /\ \E choice \in MenuAnswers, resp \in RepoResponses, chat \in ChatOutcomes :
          /\ get_menu_choice(choice) = "repo"
          /\ Looped(handle_repo_analysis(Client, Owner, Repo, resp, chat))

StartCustom ==
    /\ pc = "start"
    /\ n_workflows < MaxWorkflows
    /\ \E choice \in MenuAnswers, answer \in PromptAnswers :
          /\ get_menu_choice(choice) = "custom"
          /\ \E need \in {needs_of(answer.text)}, resp1 \in CommitResponses,
                resp2 \in RepoResponses, chat \in ChatOutcomes :
                Looped(handle_custom_analysis(Client, Owner, Repo, answer, need,
                                              resp1, resp2, chat))

\* the else branch of the loop: "exit", or a cancelled selection
StartExit ==
    /\ pc = "start"
    /\ \E choice \in MenuAnswers :
          /\ get_menu_choice(choice) = "exit"
          /\ last' = [op |-> "exit", exc |-> "", arg |-> choice]
    /\ pc' = "finally"
    /\ ClientUnchanged
    /\ UNCHANGED <<wf, n_workflows, n_ops, n_call_tool, n_chat, query, needs>>

\* mutant: the stack is closed after start() returns, not in a finally block
MainCloseWithoutFinally ==
    /\ pc = "finally"
    /\ IF last.exc = "" THEN SetClient(aclose(Client)) ELSE ClientUnchanged
    /\ pc' = IF last.exc = "" THEN "done" ELSE "crashed"
    /\ UNCHANGED <<last, wf, n_workflows, n_ops, n_call_tool, n_chat, query, needs>>

\* finally: await client.exit_stack.aclose(); a pending exception then leaves main
MainFinally ==
    /\ pc = "finally"
    /\ SetClient(aclose(Client))
    /\ pc' = IF last.exc = "" THEN "done" ELSE "crashed"
    /\ UNCHANGED <<last, wf, n_workflows, n_ops, n_call_tool, n_chat, query, needs>>

Next == MainConnect \/ StartCommits \/ StartRepo \/ StartCustom \/ StartExit \/ MainFinally

Spec == Init /\ [][Next]_vars

-----------------------------------------------------------------------------
(* A caller of the client's methods in any order, as the session-scoped      *)
(* fixtures of tests/test_mcp.py are used: an exception a call raises is the *)
(* caller's to handle and the client object lives on.                        *)

ClientInit == \E disabled \in BOOLEAN : InitWith(disabled, "client", "")

\* one more call by the caller
Op ==
    /\ pc = "client"
    /\ n_ops < MaxOps
    /\ n_ops' = n_ops + 1
    /\ UNCHANGED <<pc, query, needs>>

CallConnect ==
    /\ Op
    /\ \E outcome \in ConnectOutcomes :
          LET r == connect_to_server(Client, outcome)
          IN  /\ SetClient(r.client)
              /\ last' = [op |-> "connect_to_server", exc |-> r.exc, arg |-> outcome]
    /\ UNCHANGED <<wf, n_workflows, n_call_tool, n_chat>>

CallClose ==
    /\ Op
    /\ SetClient(aclose(Client))
    /\ last' = [op |-> "aclose", exc |-> "",
                 arg |-> IF exit_stack = <<>> THEN "nothing entered" ELSE "entered"]
    /\ UNCHANGED <<wf, n_workflows, n_call_tool, n_chat>>

\* a getter called directly
Got(name, g) ==
    /\ Called([NoCall EXCEPT !.name = name, !.exc = g.exc, !.trace = g.trace, !.ret = g.ret])
    /\ ClientUnchanged
    /\ UNCHANGED n_workflows

CallGetRepoInfo ==
    /\ Op
    /\ \E resp \in RepoResponses : Got("get_repo_info", get_repo_info(Client, Owner, Repo, resp))

CallGetCommits ==
    /\ Op
    /\ \E resp \in CommitResponses :
          Got("get_commits", get_commits(Client, Owner, Repo, DefaultLimit, resp))

\* a workflow called directly
Ran(w) ==
    /\ Called(w)
    /\ n_workflows' = n_workflows + 1
    /\ ClientUnchanged

CallCommitAnalysis ==
    /\ Op
    /\ \E resp \in CommitResponses, chat \in ChatOutcomes :
          Ran(handle_commit_analysis(Client, Owner, Repo, resp, chat))

CallRepoAnalysis ==
    /\ Op
    /\ \E resp \in RepoResponses, chat \in ChatOutcomes :
          Ran(handle_repo_analysis(Client, Owner, Repo, resp, chat))

CallCustomAnalysis ==
    /\ Op
    /\ \E answer \in PromptAnswers :
          \E need \in {needs_of(answer.text)}, resp1 \in CommitResponses,
             resp2 \in RepoResponses, chat \in ChatOutcomes :
             Ran(handle_custom_analysis(Client, Owner, Repo, answer, need,
                                        resp1, resp2, chat))

ClientNext ==
    \/ CallConnect
    \/ CallClose
    \/ CallGetRepoInfo
    \/ CallGetCommits
    \/ CallCommitAnalysis
    \/ CallRepoAnalysis
    \/ CallCustomAnalysis

ClientSpec == ClientInit /\ [][ClientNext]_vars

-----------------------------------------------------------------------------
(* The classifier alone, over every query of Queries *)

ClassifyInit ==
    \E disabled \in BOOLEAN, q \in Queries : InitWith(disabled, "classify", q)

\* both predicates applied to the query, as handle_custom_analysis applies them
Classify ==
    /\ pc = "classify"
    /\ ~needs.set
    /\ needs' = [set |-> TRUE, commit |-> _needs_commit_info(query),
                 repo |-> _needs_repo_info(query)]
    /\ UNCHANGED <<disable_tools, session, exit_stack, live, released, conns, pc, last,
                   wf, n_workflows, n_ops, n_call_tool, n_chat, query>>

ClassifySpec == ClassifyInit /\ [][Classify]_vars

-----------------------------------------------------------------------------
(* analyze_with_ollama alone, over system prompts, contexts and user prompts. *)
(* query holds the system prompt, wf.context and wf.user_prompt the two       *)
(* optional arguments (their default "" when left out).                       *)

SystemPrompts ==
    {"", CommitSystemPrompt(Owner, Repo), RepoSystemPrompt(Owner, Repo),
     CustomSystemPrompt(Owner, Repo)}

Contexts ==
    {"", " ", "{}", json_dumps(json_loads(RepoText)),
     json_dumps(PyDict(<<<<"commits", json_loads(CommitsText)>>>>))}

UserPrompts == {""} \cup Prompts

AnalyzeInit ==
    \E disabled \in BOOLEAN, system_prompt \in SystemPrompts, context \in Contexts,
       user_prompt \in UserPrompts :
       /\ disable_tools = disabled
       /\ session = NoSession
       /\ exit_stack = <<>>
       /\ live = {}
       /\ released = <<>>
       /\ conns = 0
       /\ pc = "analyze"
       /\ last = [op |-> "__init__", exc |-> "", arg |-> ""]
       /\ wf = [NoCall EXCEPT !.name = "analyze", !.context = context,
                               !.user_prompt = user_prompt]
       /\ n_workflows = 0
       /\ n_ops = 0
       /\ n_call_tool = 0
       /\ n_chat = 0
       /\ query = system_prompt
       /\ needs = NoNeeds

\* self.analyze_with_ollama(system_prompt, context, user_prompt)
Analyze ==
    /\ pc = "analyze"
    /\ \E chat \in ChatOutcomes :
          LET a == analyze_with_ollama(query, wf.context, wf.user_prompt, chat)
          IN  /\ wf' = [wf EXCEPT !.trace = a.trace, !.exc = a.exc, !.ret = PyStr(a.ret)]
              /\ last' = [op |-> "analyze_with_ollama", exc |-> a.exc, arg |-> chat]
              /\ n_chat' = n_chat + 1
    /\ pc' = "analyzed"
    /\ ClientUnchanged
    /\ UNCHANGED <<n_workflows, n_ops, n_call_tool, query, needs>>

AnalyzeSpec == AnalyzeInit /\ [][Analyze]_vars

-----------------------------------------------------------------------------
(* Properties *)

IsNone(v) == v.type = "NoneType"

\* the chat calls of a trace, and its call_tool calls
Chats(trace) == SelectSeq(trace, LAMBDA e : e.ev = "chat")

ToolCalls(trace) == SelectSeq(trace, LAMBDA e : e.ev = "call_tool")

IsWorkflow(w) == w.name \in {"commits", "repo", "custom"}

\* C1: on a client constructed with disable_tools = true, whatever workflow
\* runs, no call_tool is ever made and every chat request carries exactly one
\* system message (the system prompt): the context is absent.
C1_DisabledNeverInvokesTools ==
    disable_tools =>
        /\ n_call_tool = 0
        /\ ToolCalls(wf.trace) = <<>>
        /\ wf.context = ""
        /\ \A i \in 1..Len(Chats(wf.trace)) :
              LET m == Chats(wf.trace)[i].messages
              IN  /\ m[1].role = "system"
                  /\ \A j \in 2..Len(m) : m[j].role # "system"

\* a disabled client has run the custom workflow with a prompt that names both
\* kinds of data, and the chat call was made
C1_Witness ==
    /\ disable_tools
    /\ wf.name = "custom"
    /\ wf.user_prompt = "Repo changes"
    /\ Len(Chats(wf.trace)) = 1
    /\ wf.printed = <<ChatText>>

\* the labels of an assembled context
Labels(context_dict) == {context_dict.items[i][1] : i \in 1..Len(context_dict.items)}

\* the custom workflow ran with tools enabled on a prompt that needs both kinds
\* of data and got as far as assembling the context
NeededBoth(w) ==
    /\ w.name = "custom"
    /\ w.need_commits
    /\ w.need_repo_info
    /\ w.exc \in {"", "ResponseError"}

\* C2: in the custom workflow with tools enabled and both kinds of data
\* needed, the context never holds a label whose tool call gave no data, and
\* when exactly one of the two calls gave no data the context holds exactly
\* the other call's label and analyze_with_ollama is still called once.
C2_PartialFailureKeepsTheOtherLabel ==
    (~disable_tools /\ NeededBoth(wf)) =>
        /\ IsNone(wf.commits) => "commits" \notin Labels(wf.context_dict)
        /\ IsNone(wf.repo_info) => "repo" \notin Labels(wf.context_dict)
        /\ (IsNone(wf.commits) /\ ~IsNone(wf.repo_info)) =>
              (Labels(wf.context_dict) = {"repo"} /\ Len(Chats(wf.trace)) = 1)
        /\ (~IsNone(wf.commits) /\ IsNone(wf.repo_info)) =>
              (Labels(wf.context_dict) = {"commits"} /\ Len(Chats(wf.trace)) = 1)

\* a tool call of the workflow failed or returned no data
SomeFetchGaveNoData(w) ==
    \/ w.name = "commits" /\ IsNone(w.commits)
    \/ w.name = "repo" /\ IsNone(w.repo_info)
    \/ w.name = "custom" /\ w.user_prompt # "" /\ w.need_commits /\ IsNone(w.commits)
    \/ w.name = "custom" /\ w.user_prompt # "" /\ w.need_repo_info /\ IsNone(w.repo_info)

C4_ChatFailureLeavesLoopRunning ==
    (IsWorkflow(wf) /\ wf.exc = "ResponseError") =>
        /\ pc = "start"
        /\ ~disable_tools => ClientSession(session) \in live

\* C5: at most one session and one transport are open at a time, and an
\* open session is the one self.session refers to.
C5_AtMostOneSessionOpen ==
    /\ Cardinality({r \in live : r.kind = "session"}) <= 1
    /\ Cardinality({r \in live : r.kind = "transport"}) <= 1
    /\ \A r \in live : r.kind = "session" => r.conn = session

\* what connect_to_server has entered into the exit stack when it fails at a step
EnteredBefore(outcome) ==
    CASE outcome \in {"no_script", "transport_fails"} -> <<>>
      [] outcome = "session_fails" -> <<Transport(1)>>
      [] OTHER -> <<Transport(1), ClientSession(1)>>

ConnectFailed == ~disable_tools /\ last.op = "connect_to_server" /\ last.arg # "ok"

\* C6: when connect_to_server fails at any step, what it had entered is
\* released (last entered first) by the time the exception leaves it, the
\* exception is raised to main, there was one attempt only, and from then on
\* main runs no workflow, no tool call and no chat call.
C6_FailedConnectReleasesAndEndsRun ==
    /\ [](ConnectFailed =>
            /\ last.exc # ""
            /\ live = {}
            /\ exit_stack = <<>>
            /\ released = Reverse(EnteredBefore(last.arg))
            /\ conns = 1
            /\ pc \in {"finally", "crashed"}
            /\ n_workflows = 0 /\ n_call_tool = 0 /\ n_chat = 0)
    /\ [][ConnectFailed =>
            /\ ConnectFailed'
            /\ UNCHANGED <<wf, n_workflows, n_call_tool, n_chat, conns, live, released>>]_vars

\* list_tools failed after the transport and the session were entered; both
\* were released and main has ended with the exception
C6_Witness ==
    /\ ConnectFailed
    /\ last.arg = "list_tools_fails"
    /\ released = <<ClientSession(1), Transport(1)>>
    /\ pc = "crashed"

NoDoubleRelease == \A i, j \in 1..Len(released) : released[i] = released[j] => i = j

\* C7: aclose never raises and leaves nothing open and nothing on the stack;
\* no resource is ever released twice; an aclose that finds the stack empty
\* (never connected, disabled, already closed, closed by the except branch)
\* changes nothing of the client.
C7_CloseIsIdempotent ==
    /\ [](NoDoubleRelease /\ Range(released) \cap live = {})
    /\ [][(last'.op = "aclose" /\ n_ops' = n_ops + 1) =>
            /\ last'.exc = ""
            /\ live' = {}
            /\ exit_stack' = <<>>
            /\ Range(released') = Range(released) \cup live
            /\ exit_stack = <<>> =>
                  UNCHANGED <<disable_tools, session, exit_stack, live, released, conns>>]_vars

\* a connect succeeded, the stack was closed, and aclose was called again
C7_Witness ==
    /\ last.op = "aclose"
    /\ last.arg = "nothing entered"
    /\ released = <<ClientSession(1), Transport(1)>>
    /\ live = {}

\* C8: a getter called on its own never raises; it returns None when the
\* client is disabled or has no session (no call_tool made), and when the
\* call_tool raised, returned no content, a first block that is not text, or
\* text that is not JSON; what it returns otherwise is the parsed first block.
C8_GettersNeverRaise ==
    last.op \in {"get_repo_info", "get_commits"} =>
        /\ wf.exc = ""
        /\ (disable_tools \/ session = NoSession) => (IsNone(wf.ret) /\ wf.trace = <<>>)
        /\ Len(wf.trace) <= 1
        /\ wf.trace = <<>> => IsNone(wf.ret)
        /\ wf.trace # <<>> =>
              LET r == wf.trace[1].result
                  unusable == \/ r.raises
                              \/ r.content = <<>>
                              \/ r.content[1].type # "text"
                              \/ ~JsonValid(r.content[1].text)
              IN  /\ unusable => IsNone(wf.ret)
                  /\ ~unusable => wf.ret = json_loads(r.content[1].text)

\* get_repo_info on an open session got a text block that is not JSON
C8_Witness ==
    /\ last.op = "get_repo_info"
    /\ ClientSession(session) \in live
    /\ wf.trace # <<>>
    /\ wf.trace[1].result = CallToolResult(<<TextContent(MalformedText)>>)
    /\ IsNone(wf.ret)

\* the lower-cased form of a string, letter by letter
RECURSIVE LowerCased(_)
LowerCased(s) ==
    IF s = "" THEN ""
    ELSE LET c == SubSeq(s, 1, 1)
             l == IF \E i \in 1..26 : SubSeq("ABCDEFGHIJKLMNOPQRSTUVWXYZ", i, i) = c
                  THEN LET i == CHOOSE k \in 1..26 : SubSeq("ABCDEFGHIJKLMNOPQRSTUVWXYZ", k, k) = c
                       IN  SubSeq("abcdefghijklmnopqrstuvwxyz", i, i)
                  ELSE c
         IN  l \o LowerCased(SubSeq(s, 2, Len(s)))

\* whether text has word as a substring
HasSubstring(text, word) ==
    \E i \in 1..(Len(text) - Len(word) + 1) : SubSeq(text, i, i + Len(word) - 1) = word

TenCommitKeywords ==
    {"commit", "change", "diff", "modified", "added", "deleted", "history",
     "previous", "version", "update"}

EightRepoKeywords ==
    {"repo", "repository", "project", "codebase", "structure", "directory", "files",
     "organization"}

\* C9: _needs_commit_info(query) is true exactly when the lower-cased query
\* has one of the ten commit keywords as a substring; "no commits" is true.
C9_CommitPredicateIsKeywordMatch ==
    needs.set =>
        /\ Cardinality(TenCommitKeywords) = 10
        /\ needs.commit = (\E w \in TenCommitKeywords : HasSubstring(LowerCased(query), w))
        /\ query = "no commits" => needs.commit

\* a negated, mixed-case query has been classified as needing commit data
C9_Witness ==
    /\ needs.set
    /\ query = "No Commits in REPO"
    /\ needs.commit

\* C10: _needs_repo_info(query) is true exactly when the lower-cased query has
\* one of the eight repository keywords as a substring, whatever the commit
\* predicate answers: the tests' queries give commit only, repository only
\* and neither, and a query with keywords of both lists gives both.
C10_RepoPredicateIsIndependent ==
    needs.set =>
        /\ Cardinality(EightRepoKeywords) = 8
        /\ needs.repo = (\E w \in EightRepoKeywords : HasSubstring(LowerCased(query), w))
        /\ query = "What was the last commit?" => (needs.commit /\ ~needs.repo)
        /\ query = "How are the files organized?" => (~needs.commit /\ needs.repo)
        /\ query = "Explain this function" => (~needs.commit /\ ~needs.repo)
        /\ query = "No Commits in REPO" => (needs.commit /\ needs.repo)

\* a query with a commit keyword only has been classified: no repository data
C10_Witness ==
    /\ needs.set
    /\ query = "What was the last commit?"
    /\ needs.commit
    /\ ~needs.repo

\* the call_tool answered with a first text block that parses as JSON
Usable(result) ==
    /\ ~result.raises
    /\ result.content # <<>>
    /\ result.content[1].type = "text"
    /\ JsonValid(result.content[1].text)

\* a fixed workflow ran on an open session and its tool call was answered
\* with a structured value
FixedWithData(w) ==
    /\ ~disable_tools
    /\ w.name \in {"commits", "repo"}
    /\ ToolCalls(w.trace) # <<>>
    /\ Usable(ToolCalls(w.trace)[1].result)

\* C11: a fixed workflow whose tool call succeeded on a connected session made
\* exactly one call_tool, of its own tool with its own arguments (get_repo_info
\* with {owner, repo}; get_commit_history with {owner, repo, limit = 5}), and
\* then exactly one chat call with the context present and no user message.
C11_FixedWorkflowOneCallOneAnalysis ==
    FixedWithData(wf) =>
        /\ Len(wf.trace) = 2
        /\ wf.trace[1].ev = "call_tool"
        /\ wf.name = "repo" =>
              /\ wf.trace[1].name = "get_repo_info"
              /\ wf.trace[1].arguments = [owner |-> Owner, repo |-> Repo]
        /\ wf.name = "commits" =>
              /\ wf.trace[1].name = "get_commit_history"
              /\ wf.trace[1].arguments = [owner |-> Owner, repo |-> Repo, limit |-> 5]
        /\ wf.trace[2].ev = "chat"
        /\ Len(wf.trace[2].messages) = 2
        /\ wf.trace[2].messages[2] = [role |-> "system", content |-> wf.context]
        /\ wf.context # ""

\* C12: a custom workflow whose prompt question returned None or the empty
\* string returns without an exception, having made no call_tool and no chat
\* call and printed nothing, with tools enabled or disabled, and main is back
\* at the menu; in every custom workflow the prompt question is the first
\* thing done, before any call_tool.
C12_EmptyPromptReturnsSilently ==
    wf.name = "custom" =>
        /\ wf.trace # <<>>
        /\ wf.trace[1].ev = "ask"
        /\ \A i \in 2..Len(wf.trace) : wf.trace[i].ev # "ask"
        /\ wf.trace[1].result \in {Cancelled, Typed("")} =>
              /\ wf.exc = ""
              /\ Len(wf.trace) = 1
              /\ wf.printed = <<>>
              /\ last.op = "custom" => pc = "start"
        /\ wf.user_prompt = "" => wf.trace[1].result \in {Cancelled, Typed("")}

\* on a connected client the prompt question was cancelled and the workflow
\* returned to the menu with nothing called
C12_Witness ==
    /\ ~disable_tools
    /\ ClientSession(session) \in live
    /\ last.op = "custom"
    /\ wf.trace = <<AskCall(Cancelled)>>
    /\ pc = "start"

\* the custom workflow ran with tools enabled on a non-empty prompt that
\* neither predicate answered to
NeededNothing(w) ==
    /\ ~disable_tools
    /\ w.name = "custom"
    /\ w.user_prompt # ""
    /\ ~w.need_commits
    /\ ~w.need_repo_info

\* C13: with tools enabled, a custom workflow on a non-empty prompt that
\* matches neither keyword list ("What does this function do?" is one) makes
\* no call_tool, assembles the empty mapping, and calls the chat once with
\* the system prompt, the text "{}" as a second system message, and the
\* user prompt.
C13_NoNeedsStillSendsEmptyContext ==
    /\ (~disable_tools /\ wf.user_prompt = "What does this function do?") => NeededNothing(wf)
    /\ NeededNothing(wf) =>
          /\ ToolCalls(wf.trace) = <<>>
          /\ wf.context_dict = PyDict(<<>>)
          /\ wf.context = "{}"
          /\ Len(Chats(wf.trace)) = 1
          /\ Chats(wf.trace)[1].messages =
                <<[role |-> "system", content |-> CustomSystemPrompt(Owner, Repo)],
                  [role |-> "system", content |-> "{}"],
                  [role |-> "user", content |-> wf.user_prompt]>>

\* the example prompt was analysed on a connected client without any tool call
C13_Witness ==
    /\ ~disable_tools
    /\ ClientSession(session) \in live
    /\ wf.user_prompt = "What does this function do?"
    /\ n_call_tool = 0
    /\ wf.context = "{}"
    /\ wf.printed = <<ChatText>>

\* a message of a chat request
Message(role, content) == [role |-> role, content |-> content]

\* C14: analyze_with_ollama makes one chat call whose messages are the
\* system message with system_prompt, then a system message with the context
\* as given exactly when a context is given, then a user message with
\* user_prompt exactly when a user prompt is given, and nothing else (one to
\* three messages); what it returns is the text the chat call returned.
C14_MessagesAreSystemContextUser ==
    pc = "analyzed" =>
        /\ Len(wf.trace) = 1
        /\ wf.trace[1].ev = "chat"
        /\ LET m       == wf.trace[1].messages
               has_ctx == wf.context # ""
               has_usr == wf.user_prompt # ""
               n_ctx   == IF has_ctx THEN 1 ELSE 0
               n_usr   == IF has_usr THEN 1 ELSE 0
           IN  /\ Len(m) = 1 + n_ctx + n_usr
               /\ Len(m) \in 1..3
               /\ m[1] = Message("system", query)
               /\ has_ctx => m[2] = Message("system", wf.context)
               /\ has_usr => m[2 + n_ctx] = Message("user", wf.user_prompt)
               /\ has_ctx <=> (Len(m) >= 2 /\ m[2].role = "system")
               /\ has_usr <=> m[Len(m)].role = "user"
        /\ wf.exc = "" => wf.ret = PyStr(ChatText)
        /\ wf.exc # "" => last.arg = "raises"

\* a call with a context and a user prompt was answered: three messages sent
C14_Witness ==
    /\ pc = "analyzed"
    /\ wf.context = "{}"
    /\ wf.user_prompt = "the files"
    /\ Len(wf.trace[1].messages) = 3
    /\ wf.ret = PyStr(ChatText)

\* the workflow called the tool and got a first text block that parses as JSON
ReturnedValue(w, tool) ==
    \E i \in 1..Len(w.trace) :
        /\ w.trace[i].ev = "call_tool"
        /\ w.trace[i].name = tool
        /\ Usable(w.trace[i].result)

\* the custom workflow assembled a context (tools enabled, prompt given)
Assembled(w) ==
    /\ ~disable_tools
    /\ w.name = "custom"
    /\ w.user_prompt # ""
    /\ w.exc \in {"", "ResponseError"}

\* C15: in the assembled context, "commits" is a label exactly when commit
\* data was needed and get_commit_history returned a parsed JSON value, of
\* any value, the empty list included; "repo" likewise for get_repo_info and
\* the empty object.
C15_LabelIffStructuredValue ==
    Assembled(wf) =>
        /\ "commits" \in Labels(wf.context_dict)
              <=> (wf.need_commits /\ ReturnedValue(wf, "get_commit_history"))
        /\ "repo" \in Labels(wf.context_dict)
              <=> (wf.need_repo_info /\ ReturnedValue(wf, "get_repo_info"))

\* the positions of a trace
Positions(t) == 1..Len(t)

\* C16: the calls of a workflow are made one after the other: a call_tool
\* made before another is get_commit_history before get_repo_info, each tool
\* is called at most once, what a call returned has been taken (as the data,
\* or as None) by the time the next call is made, and the chat call, if any,
\* is the last call of the workflow, after every call_tool.
C16_ToolCallsAreSequential ==
    IsWorkflow(wf) =>
        LET t == wf.trace
        IN  /\ \A i, j \in Positions(t) :
                  (i < j /\ t[i].ev = "call_tool" /\ t[j].ev = "call_tool") =>
                      (t[i].name = "get_commit_history" /\ t[j].name = "get_repo_info")
            /\ \A i \in Positions(t) : t[i].ev = "chat" => i = Len(t)
            /\ \A i \in Positions(t) :
                  (t[i].ev = "call_tool" /\ t[i].name = "get_commit_history") =>
                      wf.commits = (IF Usable(t[i].result)
                                    THEN json_loads(t[i].result.content[1].text)
                                    ELSE PyNone)
            /\ \A i \in Positions(t) :
                  (t[i].ev = "call_tool" /\ t[i].name = "get_repo_info") =>
                      wf.repo_info = (IF Usable(t[i].result)
                                      THEN json_loads(t[i].result.content[1].text)
                                      ELSE PyNone)

\* a custom workflow needing both kinds of data made its two tool calls, the
\* first of which failed, and then the chat call
C16_Witness ==
    /\ wf.name = "custom"
    /\ Len(wf.trace) = 4
    /\ wf.trace[2].name = "get_commit_history"
    /\ wf.trace[2].result = TransportError
    /\ wf.trace[3].name = "get_repo_info"
    /\ wf.trace[4].ev = "chat"

\* the call_tool calls of a trace made to one tool
CallsTo(trace, tool) == SelectSeq(ToolCalls(trace), LAMBDA e : e.name = tool)

\* C17: in a custom workflow with tools enabled, the needs are the two
\* predicates of the prompt; a need that is true gives exactly one call_tool
\* of its tool with its arguments (get_commit_history with {owner, repo,
\* limit = 5}, get_repo_info with {owner, repo}), made once whether it failed
\* or not, and a need that is false gives no call of that tool.
C17_OneCallPerNeed ==
    (~disable_tools /\ wf.name = "custom" /\ wf.user_prompt # "") =>
        LET commit_calls == CallsTo(wf.trace, "get_commit_history")
            repo_calls   == CallsTo(wf.trace, "get_repo_info")
        IN  /\ wf.need_commits = _needs_commit_info(wf.user_prompt)
            /\ wf.need_repo_info = _needs_repo_info(wf.user_prompt)
            /\ Len(commit_calls) = (IF wf.need_commits THEN 1 ELSE 0)
            /\ Len(repo_calls) = (IF wf.need_repo_info THEN 1 ELSE 0)
            /\ Len(ToolCalls(wf.trace)) = Len(commit_calls) + Len(repo_calls)
            /\ \A i \in 1..Len(commit_calls) :
                  commit_calls[i].arguments = [owner |-> Owner, repo |-> Repo, limit |-> 5]
            /\ \A i \in 1..Len(repo_calls) :
                  repo_calls[i].arguments = [owner |-> Owner, repo |-> Repo]

\* a prompt about commits only: the one get_commit_history call failed, was
\* not made again, and no get_repo_info call was made
C17_Witness ==
    /\ ~disable_tools
    /\ wf.name = "custom"
    /\ wf.user_prompt = "last commit?"
    /\ Len(ToolCalls(wf.trace)) = 1
    /\ ToolCalls(wf.trace)[1].name = "get_commit_history"
    /\ ToolCalls(wf.trace)[1].result = TransportError
    /\ Len(Chats(wf.trace)) = 1

\* main has ended, normally or with an exception
MainEnded == pc \in {"done", "crashed"}

\* C18: when main has ended -- after the exit choice, after a failed connect,
\* after an exception that left a workflow -- nothing connect_to_server
\* entered is still open: the exit stack is empty, the session and the
\* transport of a successful connect have been released, once each, the
\* session first.
C18_EveryExitPathReleases ==
    MainEnded =>
        /\ live = {}
        /\ exit_stack = <<>>
        /\ NoDoubleRelease
        /\ session # NoSession => released = <<ClientSession(session), Transport(session)>>
        /\ \A r \in Range(released) : r.conn \in 1..conns

\* main ended with the exception of a chat call that left a workflow, and the
\* session and transport it had opened are released
C18_Witness ==
    /\ pc = "crashed"
    /\ IsWorkflow(wf)
    /\ wf.exc = "ResponseError"
    /\ session = 1
    /\ released = <<ClientSession(1), Transport(1)>>
    /\ live = {}

\* C19: self.session is set only while its session is open, so that after
\* exit_stack.aclose() the readiness check of the getters fails; a getter
\* called after the close returns None and makes no call_tool on the closed
\* session.
C19_ClosedSessionIsNotReady ==
    /\ session # NoSession => ClientSession(session) \in live
    /\ last.op \in {"get_repo_info", "get_commits"} =>
          /\ \A i \in 1..Len(wf.trace) :
                wf.trace[i].ev = "call_tool" => ClientSession(wf.trace[i].session) \in live
          /\ ClientSession(session) \notin live => IsNone(wf.ret)

\* C20: on a client constructed with disable_tools = true, whatever is called
\* and whatever the server would have done, connect_to_server raises nothing,
\* starts no transport and no session, enters nothing into the exit stack,
\* and self.session is None, in every state.
C20_DisabledConnectIsNoOp ==
    disable_tools =>
        /\ session = NoSession
        /\ exit_stack = <<>>
        /\ live = {}
        /\ released = <<>>
        /\ conns = 0
        /\ last.op = "connect_to_server" => last.exc = ""

\* a disabled client was connected where the server would not have started,
\* and again after other calls
C20_Witness ==
    /\ disable_tools
    /\ last.op = "connect_to_server"
    /\ last.arg = "transport_fails"
    /\ n_ops > 1
    /\ n_chat > 0

\* the label handle_custom_analysis files a tool's data under
LabelOf(tool) == IF tool = "get_commit_history" THEN "commits" ELSE "repo"

RECURSIVE ContextFrom(_)
\* the mapping handle_custom_analysis builds from the call_tool calls of one
\* request alone, in the order they were made
ContextFrom(calls) ==
    IF calls = <<>> THEN <<>>
    ELSE LET e     == calls[1]
             value == IF Usable(e.result) THEN json_loads(e.result.content[1].text)
                      ELSE PyNone
         IN  (IF Truthy(value) THEN <<<<LabelOf(e.name), value>>>> ELSE <<>>)
             \o ContextFrom(Tail(calls))

\* the step runs the custom workflow right after a custom workflow, with the
\* same prompt and the same answers of the provider
SameRequestAgain ==
    /\ ~disable_tools
    /\ wf.name = "custom"
    /\ wf'.name = "custom"
    /\ n_workflows' = n_workflows + 1
    /\ wf.user_prompt # ""
    /\ wf'.user_prompt = wf.user_prompt
    /\ \A i \in 1..Len(ToolCalls(wf'.trace)) :
          /\ i <= Len(ToolCalls(wf.trace))
          /\ ToolCalls(wf'.trace)[i].result = ToolCalls(wf.trace)[i].result

\* C21: the context of a custom request is built from the tool calls of that
\* request alone, so nothing of an earlier request is in it; and a request
\* made again with the same prompt while the provider answers the same gives
\* the same mapping (labels, data and order) and the same serialized context.
C21_ContextIsFreshAndRepeatable ==
    /\ [](Assembled(wf) =>
            /\ wf.context_dict = PyDict(ContextFrom(ToolCalls(wf.trace)))
            /\ wf.context = json_dumps(wf.context_dict))
    /\ [][SameRequestAgain =>
            /\ wf'.context_dict = wf.context_dict
            /\ wf'.context = wf.context]_vars

\* the same prompt was analysed a second time with the same answers and the
\* context holds both labels, commits first
C21_Witness ==
    /\ ~disable_tools
    /\ n_workflows = 2
    /\ wf.name = "custom"
    /\ last.arg = "repeat"
    /\ wf.user_prompt = "Repo changes"
    /\ Len(wf.context_dict.items) = 2
    /\ wf.context_dict.items[1][1] = "commits"
    /\ wf.context_dict.items[2][1] = "repo"

\* one turn of the menu loop ran a workflow
RanOneWorkflow ==
    /\ n_workflows' = n_workflows + 1
    /\ IsWorkflow(wf')
    /\ last'.op = wf'.name
    /\ n_call_tool' = n_call_tool + Len(ToolCalls(wf'.trace))
    /\ n_chat' = n_chat + Len(Chats(wf'.trace))
    /\ UNCHANGED <<disable_tools, session, exit_stack, live, released, conns>>

\* one turn of the menu loop took the exit branch
TookExit ==
    /\ last'.op = "exit"
    /\ last'.arg \in {"Exit", ""}
    /\ UNCHANGED <<wf, n_workflows, n_call_tool, n_chat>>
    /\ UNCHANGED <<disable_tools, session, exit_stack, live, released, conns>>

\* C22: a menu answer is the key of one workflow or, for "Exit" and a
\* cancelled selection, "exit"; a turn of the loop of start() runs the one
\* workflow chosen and nothing else, and the loop is back at the menu after a
\* workflow that returned; the loop ends only by the exit branch, which makes
\* no call_tool and no chat call.
C22_MenuLoopEndsOnlyOnExit ==
    /\ [](\A choice \in MenuAnswers :
            /\ get_menu_choice(choice) \in {"commits", "repo", "custom", "exit"}
            /\ get_menu_choice(choice) = "exit" <=> choice \in {"Exit", ""})
    /\ [][pc = "start" =>
            /\ RanOneWorkflow \/ TookExit
            /\ (RanOneWorkflow /\ wf'.exc = "") => pc' = "start"
            /\ pc' # "start" => TookExit]_vars

=============================================================================
